---- MODULE Spec2Model ----
(***************************************************************************)
(* A model of the vector algebra layer of ballistics-calculator            *)
(* (src/src/types.rs) and of the simple projectile                         *)
(* (src/src/projectiles/mod.rs).                                           *)
(*                                                                         *)
(* f64 values are modelled as fixed-point numbers with Scale units per     *)
(* 1.0, together with the IEEE-754 special values the code can produce:    *)
(* NaN, the two infinities and the two zeros.  Every arithmetic operation  *)
(* rounds to the nearest unit, as every f64 operation rounds to the        *)
(* nearest representable value, and a result that rounds to zero keeps its *)
(* sign, as an f64 underflow does.  Angles are in radians.                 *)
(***************************************************************************)
EXTENDS Integers, Sequences, FiniteSets, TLC

\* ------------------------------------------------------------------ bounds

\* Units per 1.0: the resolution of the fixed-point numbers.
Scale == 1000
\* Components of the constructed vectors range over -MaxCoord..MaxCoord.
MaxCoord == 4
\* Radii (update_length's argument, a constructed sphere's radius): 1..MaxRadius.
MaxRadius == 2
\* Each constructed value is mutated or converted at most MaxMut times.
MaxMut == 1
\* Constructed angles are the multiples of a quarter turn / AngleDiv.
AngleDiv == 4
\* The projectile is advanced at most MaxSteps times, by 1..MaxDelta seconds.
MaxSteps == 3
MaxDelta == 2
\* Gravity ranges over 0..MaxGravity, velocity components over -MaxVel..MaxVel.
MaxGravity == 2
MaxVel == 2

\* ------------------------------------------------------- f64, fixed point

Null == [k |-> "null"]

\* a / b rounded to the nearest integer, for a >= 0 and b > 0
RDiv(a, b) == (2 * a + b) \div (2 * b)

Abs(n) == IF n < 0 THEN -n ELSE n

\* The finite value of magnitude m (in units) and sign neg.
Mk(neg, m) == [k |-> "fin", n |-> IF neg THEN -m ELSE m, neg |-> neg]
Fin(n) == Mk(n < 0, Abs(n))
\* The f64 of the whole number c.
Whole(c) == Fin(c * Scale)
Inf(neg) == [k |-> "inf", n |-> 0, neg |-> neg]
NaN == [k |-> "nan", n |-> 0, neg |-> FALSE]

IsNaN(a) == a.k = "nan"
IsFin(a) == a.k = "fin"
IsInf(a) == a.k = "inf"
IsZero(a) == a.k = "fin" /\ a.n = 0

\* a == b on f64: NaN equals nothing, -0.0 equals 0.0
FEq(a, b) ==
    /\ ~IsNaN(a) /\ ~IsNaN(b)
    /\ a.k = b.k
    /\ IF IsFin(a) THEN a.n = b.n ELSE a.neg = b.neg

\* a * b
FMul(a, b) ==
    IF IsNaN(a) \/ IsNaN(b) THEN NaN
    ELSE IF IsInf(a) \/ IsInf(b)
         THEN IF IsZero(a) \/ IsZero(b) THEN NaN ELSE Inf(a.neg # b.neg)
         ELSE Mk(a.neg # b.neg, RDiv(Abs(a.n) * Abs(b.n), Scale))

\* a / b
FDiv(a, b) ==
    IF IsNaN(a) \/ IsNaN(b) THEN NaN
    ELSE IF IsInf(a) THEN (IF IsInf(b) THEN NaN ELSE Inf(a.neg # b.neg))
    ELSE IF IsInf(b) THEN Mk(a.neg # b.neg, 0)
    ELSE IF IsZero(b) THEN (IF IsZero(a) THEN NaN ELSE Inf(a.neg # b.neg))
    ELSE Mk(a.neg # b.neg, RDiv(Abs(a.n) * Scale, Abs(b.n)))

\* a + b
FAdd(a, b) ==
    IF IsNaN(a) \/ IsNaN(b) THEN NaN
    ELSE IF IsInf(a) THEN (IF IsInf(b) /\ a.neg # b.neg THEN NaN ELSE a)
    ELSE IF IsInf(b) THEN b
    ELSE IF a.n + b.n = 0 THEN Mk(a.neg /\ b.neg, 0)
    ELSE Fin(a.n + b.n)

\* -a
FNeg(a) == IF IsNaN(a) THEN NaN ELSE [a EXCEPT !.n = -a.n, !.neg = ~a.neg]

\* a.powi(2)
FSq(a) == FMul(a, a)

\* The integer square root: the largest r in lo..hi with r * r <= n.
RECURSIVE ISqrtIn(_, _, _)
ISqrtIn(n, lo, hi) ==
    IF lo = hi THEN lo
    ELSE LET mid == (lo + hi + 1) \div 2
         IN  IF mid * mid <= n THEN ISqrtIn(n, mid, hi) ELSE ISqrtIn(n, lo, mid - 1)

\* The square root of n >= 0 rounded to the nearest integer.
ISqrt(n) ==
    LET r == ISqrtIn(n, 0, 46340)
    IN  IF n - r * r > r THEN r + 1 ELSE r

\* a.sqrt()
FSqrt(a) ==
    IF IsNaN(a) THEN NaN
    ELSE IF IsZero(a) THEN a
    ELSE IF a.neg THEN NaN
    ELSE IF IsInf(a) THEN a
    ELSE Mk(FALSE, ISqrt(a.n * Scale))

\* ---------------------------------------------------------- trigonometry

\* pi and pi / 2 in units (355 / 113 = 3.1415929...)
Pi == RDiv(355 * Scale, 113)
HalfPi == RDiv(Pi, 2)

\* sin of a first-quadrant angle of a units, by its Taylor series to a^9
SinSeries(a) ==
    LET a2 == RDiv(a * a, Scale)
        t4 == Scale - RDiv(a2, 72)
        t3 == Scale - RDiv(a2 * t4, 42 * Scale)
        t2 == Scale - RDiv(a2 * t3, 20 * Scale)
        t1 == Scale - RDiv(a2 * t2, 6 * Scale)
    IN  RDiv(a * t1, Scale)

SinTab == [a \in 0..HalfPi |-> IF a = HalfPi THEN Scale ELSE SinSeries(a)]

\* sin and cos (value and sign) of an angle of m >= 0 units
SinAbs(m) ==
    LET r == m % (2 * Pi)
        h == IF r >= Pi THEN r - Pi ELSE r
        q == IF h > HalfPi THEN Pi - h ELSE h
    IN  [neg |-> r >= Pi, m |-> SinTab[q]]

CosAbs(m) ==
    LET r == m % (2 * Pi)
        h == IF r >= Pi THEN 2 * Pi - r ELSE r
    IN  IF h > HalfPi THEN [neg |-> TRUE, m |-> SinTab[h - HalfPi]]
        ELSE [neg |-> FALSE, m |-> SinTab[HalfPi - h]]

\* a.sin()
FSin(a) ==
    IF ~IsFin(a) THEN NaN
    ELSE IF IsZero(a) THEN a
    ELSE LET s == SinAbs(Abs(a.n)) IN Mk(s.neg # a.neg, s.m)

\* a.cos()
FCos(a) ==
    IF ~IsFin(a) THEN NaN
    ELSE LET c == CosAbs(Abs(a.n)) IN Mk(c.neg, c.m)

\* The largest angle t in lo..hi with tan(t) <= q / Scale.
RECURSIVE AtanIn(_, _, _)
AtanIn(q, lo, hi) ==
    IF lo = hi THEN lo
    ELSE LET mid == (lo + hi + 1) \div 2
         IN  IF SinTab[mid] * Scale <= q * SinTab[HalfPi - mid]
             THEN AtanIn(q, mid, hi) ELSE AtanIn(q, lo, mid - 1)

\* atan of q >= 0 units; beyond 2000.0 it is pi / 2 to the last unit
AtanAbs(q) == IF q >= 2000 * Scale THEN HalfPi ELSE AtanIn(q, 0, HalfPi)

\* a.atan()
FAtan(a) ==
    IF IsNaN(a) THEN NaN
    ELSE IF IsInf(a) THEN Mk(a.neg, HalfPi)
    ELSE Mk(a.neg, AtanAbs(Abs(a.n)))

\* ------------------------------------------------------------ types.rs

\* Vec3D { x, y, z }
Vec3D(x, y, z) == [x |-> x, y |-> y, z |-> z]
\* Vec2D { x, y }
Vec2D(x, y) == [x |-> x, y |-> y]
\* Vec3DSphere { azimuth, polar, radius }
Vec3DSphere(azimuth, polar, radius) ==
    [azimuth |-> azimuth, polar |-> polar, radius |-> radius]

\* Vec3D::length with the z component forgotten
Vec3D_length_no_z(v) == FSqrt(FAdd(FSq(v.x), FSq(v.y)))

\* Vec3D::length
Vec3D_length(v) == FSqrt(FAdd(FAdd(FSq(v.x), FSq(v.y)), FSq(v.z)))

\* Vec3D::length_xy
Vec3D_length_xy(v) == FSqrt(FAdd(FSq(v.x), FSq(v.y)))

\* Vec3D::to_2d with length() taken for length_xy()
Vec3D_to_2d_full_length(v) == Vec2D(Vec3D_length(v), v.z)

\* Vec3D::to_2d
Vec3D_to_2d(v) == Vec2D(Vec3D_length_xy(v), v.z)

\* Vec3D::to_sphere
Vec3D_to_sphere(v) ==
    [radius |-> Vec3D_length(v),
     azimuth |-> FAtan(FDiv(v.y, v.x)),
     polar |-> FAtan(FDiv(v.z, Vec3D_length_xy(v)))]

\* Vec3DSphere::to_vec
Vec3DSphere_to_vec(s) ==
    [x |-> FMul(FMul(s.radius, FCos(s.azimuth)), FSin(s.polar)),
     y |-> FMul(FMul(s.radius, FSin(s.azimuth)), FSin(s.polar)),
     z |-> FMul(s.radius, FCos(s.polar))]

\* Vec3D::update_length: the receiver after the call
Vec3D_update_length(v, new) ==
    LET sphere == [Vec3D_to_sphere(v) EXCEPT !.radius = new]
        cartesian == Vec3DSphere_to_vec(sphere)
    IN  [v EXCEPT !.x = cartesian.x, !.y = cartesian.y, !.z = cartesian.z]

\* The outcome of a call that does not return: todo!() panics.
Panic == [k |-> "panic"]

\* Vec2D::length
Vec2D_length(d) == Panic

\* Vec2D::update_length: the receiver after the call
Vec2D_update_length(d, new) == Panic

\* Vec2D::to_sphere
Vec2D_to_sphere(d) == Panic

\* ----------------------------------------------------- projectiles/mod.rs

\* simple::Projectile { velocity, gravity }
Projectile(velocity, gravity) == [velocity |-> velocity, gravity |-> gravity]

\* advance with gravity applied to both velocity components
advance_both_axes(p, q, dt) ==
    LET g == FNeg(p.gravity)
        half == Fin(Scale \div 2)
    IN  [proj |-> [p EXCEPT !.velocity.x = FAdd(p.velocity.x, FMul(g, dt)),
                            !.velocity.y = FAdd(p.velocity.y, FMul(g, dt))],
         pos |-> Vec2D(FAdd(q.x, FMul(p.velocity.x, dt)),
                       FAdd(FAdd(q.y, FMul(p.velocity.y, dt)),
                            FMul(FMul(half, g), FSq(dt))))]

\* advance(time_delta): the projectile p at position q, time_delta later.
\* Gravity is positive downward and acts on the vertical component, y.
advance(p, q, dt) ==
    LET g == FNeg(p.gravity)
        half == Fin(Scale \div 2)
    IN  [proj |-> [p EXCEPT !.velocity.y = FAdd(p.velocity.y, FMul(g, dt))],
         pos |-> Vec2D(FAdd(q.x, FMul(p.velocity.x, dt)),
                       FAdd(FAdd(q.y, FMul(p.velocity.y, dt)),
                            FMul(FMul(half, g), FSq(dt))))]

\* ------------------------------------------------------------ the state

\* vec, sph, v2d: the Vec3D, the Vec3DSphere and the Vec2D the caller holds
\*     (Null: none); sph is the temporary of an expression such as
\*     v.to_sphere().to_vec() and is dropped by the next call
\* ret: the f64 the last call returned (Null: none)
\* op: the last call ("none": nothing is constructed yet; a run constructs one
\*     value and then calls its methods)
\* orig: the value as constructed
\* hist: the calls since construction that replaced vec, with their argument
\* panicked: the thread has panicked
\* proj, pos: the projectile and its position; launched: the projectile as
\*     constructed; time: the number of advance calls
VARIABLES vec, sph, v2d, ret, op, orig, hist, panicked, proj, pos, launched, time

pvars == <<proj, pos, launched, time>>
vars == <<vec, sph, v2d, ret, op, orig, hist, panicked, proj, pos, launched, time>>

\* ----------------------------------------------------------- the inputs

\* Whole numbers; -0.0 is not among the constructed components.
Coords == {Whole(c) : c \in -MaxCoord..MaxCoord}
Radii == {Whole(r) : r \in 1..MaxRadius}
\* the multiples of pi / (2 * AngleDiv) strictly inside (-pi / 2, pi / 2)
Angles == {Fin((k * HalfPi) \div AngleDiv) : k \in (1 - AngleDiv)..(AngleDiv - 1)}

\* --------------------------------------------------- the vector algebra

Init ==
    /\ vec = Null /\ sph = Null /\ v2d = Null /\ ret = Null
    /\ op = "none" /\ orig = Null /\ hist = <<>> /\ panicked = FALSE
    /\ proj = Null /\ pos = Null /\ launched = Null /\ time = 0

\* let v = Vec3D::new(x, y, z)
Vec3DNew(x, y, z) ==
    /\ op = "none"
    /\ vec' = Vec3D(x, y, z)
    /\ orig' = vec'
    /\ sph' = Null /\ v2d' = Null /\ ret' = Null
    /\ op' = "Vec3D::new" /\ hist' = <<>>
    /\ UNCHANGED <<panicked, pvars>>

\* let s = Vec3DSphere { radius, azimuth, polar }
Vec3DSphereNew(radius, azimuth, polar) ==
    /\ op = "none"
    /\ sph' = Vec3DSphere(azimuth, polar, radius)
    /\ orig' = sph'
    /\ vec' = Null /\ v2d' = Null /\ ret' = Null
    /\ op' = "Vec3DSphere" /\ hist' = <<>>
    /\ UNCHANGED <<panicked, pvars>>

\* let d = Vec2D::new(x, y)
Vec2DNew(x, y) ==
    /\ op = "none"
    /\ v2d' = Vec2D(x, y)
    /\ orig' = v2d'
    /\ vec' = Null /\ sph' = Null /\ ret' = Null
    /\ op' = "Vec2D::new" /\ hist' = <<>>
    /\ UNCHANGED <<panicked, pvars>>

\* v.length()
CallLength ==
    /\ ~panicked /\ vec # Null
    /\ ret' = Vec3D_length(vec)
    /\ sph' = Null /\ v2d' = Null
    /\ op' = "length"
    /\ UNCHANGED <<vec, orig, hist, panicked, pvars>>

\* v.length_xy()
CallLengthXy ==
    /\ ~panicked /\ vec # Null
    /\ ret' = Vec3D_length_xy(vec)
    /\ sph' = Null /\ v2d' = Null
    /\ op' = "length_xy"
    /\ UNCHANGED <<vec, orig, hist, panicked, pvars>>

\* v.to_2d()
CallTo2d ==
    /\ ~panicked /\ vec # Null
    /\ v2d' = Vec3D_to_2d(vec)
    /\ sph' = Null /\ ret' = Null
    /\ op' = "to_2d"
    /\ UNCHANGED <<vec, orig, hist, panicked, pvars>>

\* v.to_sphere()
CallToSphere ==
    /\ ~panicked /\ vec # Null
    /\ sph' = Vec3D_to_sphere(vec)
    /\ v2d' = Null /\ ret' = Null
    /\ op' = "to_sphere"
    /\ UNCHANGED <<vec, orig, hist, panicked, pvars>>

\* let v = s.to_vec()
CallToVec ==
    /\ ~panicked /\ sph # Null
    /\ Len(hist) < MaxMut
    /\ vec' = Vec3DSphere_to_vec(sph)
    /\ sph' = Null /\ v2d' = Null /\ ret' = Null
    /\ op' = "to_vec"
    /\ hist' = Append(hist, [f |-> "to_vec", a |-> Null])
    /\ UNCHANGED <<orig, panicked, pvars>>

\* v.update_length(new)
CallUpdateLength(new) ==
    /\ ~panicked /\ vec # Null
    /\ Len(hist) < MaxMut
    /\ vec' = Vec3D_update_length(vec, new)
    /\ sph' = Null /\ v2d' = Null /\ ret' = Null
    /\ op' = "update_length"
    /\ hist' = Append(hist, [f |-> "update_length", a |-> new])
    /\ UNCHANGED <<orig, panicked, pvars>>

\* d.length()
CallVec2DLength ==
    /\ ~panicked /\ v2d # Null
    /\ LET r == Vec2D_length(v2d)
       IN  /\ panicked' = (r = Panic)
           /\ ret' = IF r = Panic THEN Null ELSE r
    /\ op' = "Vec2D::length"
    /\ UNCHANGED <<vec, sph, v2d, orig, hist, pvars>>

\* d.update_length(new)
CallVec2DUpdateLength(new) ==
    /\ ~panicked /\ v2d # Null
    /\ LET r == Vec2D_update_length(v2d, new)
       IN  /\ panicked' = (r = Panic)
           /\ v2d' = IF r = Panic THEN v2d ELSE r
    /\ op' = "Vec2D::update_length"
    /\ UNCHANGED <<vec, sph, ret, orig, hist, pvars>>

\* d.to_sphere()
CallVec2DToSphere ==
    /\ ~panicked /\ v2d # Null
    /\ LET r == Vec2D_to_sphere(v2d)
       IN  /\ panicked' = (r = Panic)
           /\ sph' = IF r = Panic THEN Null ELSE r
    /\ op' = "Vec2D::to_sphere"
    /\ UNCHANGED <<vec, v2d, ret, orig, hist, pvars>>

\* ------------------------------------------------------- the projectile

\* let p = Projectile { velocity: Vec2D::new(vx, vy), gravity }
ProjectileNew(vx, vy, gravity) ==
    /\ op = "none"
    /\ proj' = Projectile(Vec2D(vx, vy), gravity)
    /\ launched' = proj'
    /\ pos' = Vec2D(Whole(0), Whole(0))
    /\ time' = 0
    /\ op' = "Projectile"
    /\ UNCHANGED <<vec, sph, v2d, ret, orig, hist, panicked>>

\* p.advance(time_delta)
CallAdvance(dt) ==
    /\ proj # Null
    /\ time < MaxSteps
    /\ LET r == advance(proj, pos, dt)
       IN  proj' = r.proj /\ pos' = r.pos
    /\ time' = time + 1
    /\ op' = "advance"
    /\ UNCHANGED <<vec, sph, v2d, ret, orig, hist, panicked, launched>>

Velocities == {Whole(c) : c \in -MaxVel..MaxVel}
Gravities == {Whole(c) : c \in 0..MaxGravity}
Deltas == {Whole(c) : c \in 1..MaxDelta}

Next ==
    \/ \E x \in Coords, y \in Coords, z \in Coords : Vec3DNew(x, y, z)
    \/ \E r \in Radii, a \in Angles, p \in Angles : Vec3DSphereNew(r, a, p)
    \/ \E x \in Coords, y \in Coords : Vec2DNew(x, y)
    \/ CallLength
    \/ CallLengthXy
    \/ CallTo2d
    \/ CallToSphere
    \/ CallToVec
    \/ \E r \in Radii : CallUpdateLength(r)
    \/ CallVec2DLength
    \/ \E r \in Radii : CallVec2DUpdateLength(r)
    \/ CallVec2DToSphere
    \/ \E vx \in Velocities, vy \in Velocities, g \in Gravities : ProjectileNew(vx, vy, g)
    \/ \E dt \in Deltas : CallAdvance(dt)

Spec == Init /\ [][Next]_vars

\* ------------------------------------------------------------ the claims

\* The tolerance of "within tolerance": a fortieth of 1.0.  The rounding of
\* the fixed-point operations stays well inside it.
Tol == Scale \div 40

\* The four-quadrant arctangent y.atan2(x), for finite y and x.
FAtan2(y, x) ==
    IF IsNaN(y) \/ IsNaN(x) THEN NaN
    ELSE IF IsZero(x) /\ IsZero(y) THEN Mk(y.neg, IF x.neg THEN Pi ELSE 0)
    ELSE IF IsZero(x) THEN Mk(y.neg, HalfPi)
    ELSE LET t == AtanAbs(RDiv(Abs(y.n) * Scale, Abs(x.n)))
         IN  Mk(y.neg, IF x.neg THEN Pi - t ELSE t)

IsVec3D(v) == DOMAIN v = {"x", "y", "z"}
IsVec2D(v) == DOMAIN v = {"x", "y"}
IsSphere(v) == DOMAIN v = {"azimuth", "polar", "radius"}

FiniteVec(v) == IsFin(v.x) /\ IsFin(v.y) /\ IsFin(v.z)
ZeroVec(v) == IsZero(v.x) /\ IsZero(v.y) /\ IsZero(v.z)
Close(a, b) == IsFin(a) /\ IsFin(b) /\ Abs(a.n - b.n) <= Tol
CloseVec(v, w) == Close(v.x, w.x) /\ Close(v.y, w.y) /\ Close(v.z, w.z)

\* r is the square root of sq (in squared units) as the arithmetic gives it:
\* each square is rounded to the unit, which is Scale squared units, and
\* so is the root.
IsRoot(r, sq) ==
    /\ IsFin(r) /\ r.n >= 0
    /\ sq <= (r.n + 1) * (r.n + 1) + 2 * Scale
    /\ (r.n >= 1 => (r.n - 1) * (r.n - 1) <= sq + 2 * Scale)

\* The states right after a call on the value as constructed.
OnConstructed(f) == op = f /\ hist = <<>>
\* The states right after a call f that follows one replacing call g.
After(g, f) == op = f /\ Len(hist) = 1 /\ hist[1].f = g

\* C1: for every Vec3D v of nonzero magnitude, v.to_sphere().to_vec() has
\* the x, y and z of v, within tolerance.
C1_CartesianRoundTrip ==
    (After("to_vec", "to_vec") /\ IsVec3D(orig) /\ ~ZeroVec(orig))
        => CloseVec(vec, orig)

\* C2: for every Vec3D v of nonzero magnitude and every r > 0, after
\* v.update_length(r) the length is r and each component is the old one
\* times r / old length.
C2_UpdateLength ==
    (After("update_length", "update_length") /\ IsVec3D(orig) /\ ~ZeroVec(orig))
        => LET r == hist[1].a
               k == FDiv(r, Vec3D_length(orig))
           IN  /\ Close(Vec3D_length(vec), r)
               /\ CloseVec(vec, Vec3D(FMul(orig.x, k), FMul(orig.y, k), FMul(orig.z, k)))

\* C3: to_sphere of the zero vector returns radius 0, azimuth 0 and polar 0
\* and no NaN; azimuth is 0 whenever x = 0 and y = 0, polar is 0 whenever
\* length_xy() = 0.
C3_ZeroToSphere ==
    (OnConstructed("to_sphere") /\ IsVec3D(orig))
        => /\ ~panicked
           /\ ~IsNaN(sph.radius) /\ ~IsNaN(sph.azimuth) /\ ~IsNaN(sph.polar)
           /\ ZeroVec(vec) => IsZero(sph.radius)
           /\ (IsZero(vec.x) /\ IsZero(vec.y)) => IsZero(sph.azimuth)
           /\ IsZero(Vec3D_length_xy(vec)) => IsZero(sph.polar)

\* C4: update_length on the zero vector reports failure or leaves the vector
\* at (0, 0, 0); it never leaves NaN components.
C4_ZeroUpdateLength ==
    (After("update_length", "update_length") /\ IsVec3D(orig) /\ ZeroVec(orig))
        => panicked \/ ZeroVec(vec)

\* C5: for (x, y) # (0, 0) the azimuth of to_sphere is atan2(y, x): opposite
\* xy-projections get different azimuths, and x = 0 gives +pi/2 or -pi/2 by
\* the sign of y.
C5_FourQuadrantAzimuth ==
    (OnConstructed("to_sphere") /\ IsVec3D(orig) /\ ~(IsZero(vec.x) /\ IsZero(vec.y)))
        => /\ Close(sph.azimuth, FAtan2(vec.y, vec.x))
           /\ ~FEq(sph.azimuth, Vec3D_to_sphere(Vec3D(FNeg(vec.x), FNeg(vec.y), vec.z)).azimuth)
           /\ IsZero(vec.x) => FEq(sph.azimuth, Mk(vec.y.neg, HalfPi))

\* C6: for every Vec3DSphere s with radius > 0, azimuth in (-pi/2, pi/2) and
\* polar in (0, pi/2), s.to_vec().to_sphere() has the radius, the azimuth and
\* the polar angle of s, and s.to_vec().length() is s.radius.
C6_SphericalRoundTrip ==
    (After("to_vec", "to_sphere") /\ IsSphere(orig) /\ orig.polar.n > 0)
        => /\ Close(sph.radius, orig.radius)
           /\ Close(sph.azimuth, orig.azimuth)
           /\ Close(sph.polar, orig.polar)
           /\ Close(Vec3D_length(vec), orig.radius)

SumSq3(v) == v.x.n * v.x.n + v.y.n * v.y.n + v.z.n * v.z.n
SumSq2(v) == v.x.n * v.x.n + v.y.n * v.y.n

\* v with the components chosen by fx, fy, fz negated
Flip(v, fx, fy, fz) ==
    Vec3D(IF fx THEN FNeg(v.x) ELSE v.x,
          IF fy THEN FNeg(v.y) ELSE v.y,
          IF fz THEN FNeg(v.z) ELSE v.z)

\* C7: for every Vec3D of finite components, length() is the Euclidean norm:
\* its square is the sum of the squared components (to the last unit of the
\* arithmetic), it is never negative, it is the same with any component
\* negated, it is exactly 0 for the zero vector, and it is 5 for (3, 4, 0).
C7_Length ==
    (op = "length" /\ FiniteVec(vec))
        => /\ IsRoot(ret, SumSq3(vec))
           /\ \A fx, fy, fz \in BOOLEAN : Vec3D_length(Flip(vec, fx, fy, fz)) = ret
           /\ ZeroVec(vec) => ret = Whole(0)
           /\ vec = Vec3D(Whole(3), Whole(4), Whole(0)) => ret = Whole(5)

\* C7's case: length() has returned 5 for a vector (-3, 4, 0) with a negative
\* component.
C7_Witness ==
    /\ op = "length"
    /\ vec = Vec3D(Whole(-3), Whole(4), Whole(0))
    /\ ret = Whole(5)

\* C8: for every Vec3D v of finite components, to_2d() returns the Vec2D
\* whose x is length_xy() = sqrt(x^2 + y^2), never negative, and whose y is
\* v.z; v is not modified; (3, 4, 3) projects to (5, 3).
C8_To2d ==
    (op = "to_2d" /\ FiniteVec(vec))
        => /\ IsVec2D(v2d)
           /\ IsRoot(v2d.x, SumSq2(vec))
           /\ v2d.x = Vec3D_length_xy(vec)
           /\ v2d.y = vec.z
           /\ hist = <<>> => vec = orig
           /\ vec = Vec3D(Whole(3), Whole(4), Whole(3))
                  => v2d = Vec2D(Whole(5), Whole(3))

\* C8's case: to_2d() has projected (3, 4, 3) to (5, 3).
C8_Witness ==
    /\ op = "to_2d"
    /\ orig = Vec3D(Whole(3), Whole(4), Whole(3))
    /\ vec = orig
    /\ v2d = Vec2D(Whole(5), Whole(3))

\* C9: Vec2D::length, Vec2D::to_sphere and Vec2D::update_length complete
\* normally for every input, none panics; length() returns sqrt(x^2 + y^2),
\* to_sphere() returns radius = length() and polar = atan2(y, x).
C9_Vec2DApi ==
    /\ op \in {"Vec2D::length", "Vec2D::to_sphere", "Vec2D::update_length"}
           => ~panicked
    /\ op = "Vec2D::length" => IsRoot(ret, SumSq2(v2d))
    /\ op = "Vec2D::to_sphere"
           => /\ IsRoot(sph.radius, SumSq2(v2d))
              /\ Close(sph.polar, FAtan2(v2d.y, v2d.x))

\* C10: after any sequence of advance calls the projectile's gravity is its
\* construction-time value and its horizontal velocity is its initial value;
\* with gravity = 0 the vertical velocity is unchanged as well.
C10_ProjectileFrame ==
    proj # Null
        => /\ proj.gravity = launched.gravity
           /\ proj.velocity.x = launched.velocity.x
           /\ IsZero(proj.gravity) => FEq(proj.velocity.y, launched.velocity.y)

\* C10's case: two advances under gravity have changed the vertical velocity
\* and the position of a projectile with horizontal velocity.
C10_Witness ==
    /\ proj # Null
    /\ time >= 2
    /\ ~IsZero(proj.gravity)
    /\ ~IsZero(proj.velocity.x)
    /\ ~FEq(proj.velocity.y, launched.velocity.y)
    /\ ~IsZero(pos.x) /\ ~IsZero(pos.y)
====
